---- MODULE Spec2Model ----
(***************************************************************************)
(* Connection analysis of the IFC viewer: the Connections session          *)
(* (analyzeConnections / findConnections / exitConnectionMode) in its two  *)
(* TypeScript revisions, and the contact classifier.                       *)
(*                                                                         *)
(* Revision "PP" is the Connections class of                               *)
(*   src/ifc-viewer/src/components/PropertiesPanel.ts,                     *)
(* revision "CT" the one of src/ifc-viewer/src/components/Connections.ts.  *)
(*                                                                         *)
(* One step of the session specification is one macrotask of the browser   *)
(* event loop: an event handler together with every promise continuation   *)
(* that runs before the next handler can.  `await` on the repository's own *)
(* async functions (findIntersection, visualizeConnections) resolves in    *)
(* the microtask queue, so no handler runs in between; the only await that *)
(* returns to the event loop is the setTimeout(100) at the head of CT's    *)
(* analyzeConnections.                                                     *)
(***************************************************************************)
EXTENDS Integers, Sequences, FiniteSets, TLC

(***************************************************************************)
(* Bounds                                                                  *)
(***************************************************************************)
NumModels == 2
MaxExpressID == 2
MaxElems == 3
NumLocs == 2
NumMeshes == 1
MaxPending == 2

VARIABLES
  rev,                \* which revision of the Connections class runs
  elements,           \* what getAllElements() returns for the loaded scene
  contact,            \* the scene's geometry: outcome of the pairwise pipeline
  meshMaterial,       \* mesh.material, per mesh
  originalMaterial,   \* mesh.userData.originalMaterial (<<>> = not set)
  isConnectionMode,   \* this.isConnectionMode
  connectionVisualizer, \* <<>> = null, else <<[activeMode |-> ...]>>
  connectionData,     \* this.connectionData (<<>> = null)
  elementConnections, \* this.elementConnections: expressID -> set of ids
  hasConnections,     \* object.userData.hasConnections, per element object
  rawIntersections,   \* this.rawIntersections
  visualizations,     \* IntersectionVisualizer.visualizations, objects in scene
  sectionHidden,      \* ".connections-section" carries class "hidden"
  errorShown,         \* the error div with the Retry button is displayed
  pending,            \* analyzeConnections calls suspended on setTimeout(100)
  event,              \* what the last macrotask did
  pairsRun,           \* pairs the last pass ran the pairwise pipeline for
  exited,             \* set by exitConnectionMode until analyzeConnections is
                      \* called again: the materials it left, and whether a
                      \* pass was suspended at the time
  pts,                \* the points (or boxes, or ray hits) given to the geometry
  cls,                \* what the geometry code computed from them
  unit                \* grid steps per metre of the integer coordinates

vars == <<rev, elements, contact, meshMaterial, originalMaterial,
          isConnectionMode, connectionVisualizer, connectionData,
          elementConnections, hasConnections, rawIntersections,
          visualizations, sectionHidden, errorShown, pending, event,
          pairsRun, exited, pts, cls, unit>>

sessionVars == <<rev, elements, contact, meshMaterial, originalMaterial,
          isConnectionMode, connectionVisualizer, connectionData,
          elementConnections, hasConnections, rawIntersections,
          visualizations, sectionHidden, errorShown, pending, event,
          pairsRun, exited>>

(***************************************************************************)
(* The scene                                                               *)
(***************************************************************************)
Revs == {"PP", "CT"}

ModelIDs == 0..(NumModels - 1)

ExpressIDs == 1..MaxExpressID

ElementInfo == [modelID : ModelIDs, expressID : ExpressIDs]

Meshes == 1..NumMeshes

Locs == 1..NumLocs

ConnectionTypes == {"point", "line", "surface"}

Material == [transparent : BOOLEAN, opacity : {30, 50, 100}, depthWrite : BOOLEAN]

\* new THREE.MeshPhongMaterial({opacity: color.w, transparent: color.w !== 1})
LoadMaterials ==
  { [transparent |-> FALSE, opacity |-> 100, depthWrite |-> TRUE],
    [transparent |-> TRUE,  opacity |-> 50,  depthWrite |-> TRUE] }

\* getAllElements: models in Map order, each traversed; only groups with a
\* truthy userData.expressID
getAllElements ==
  { s \in UNION { [1..n -> ElementInfo] : n \in 0..MaxElems } :
      \A i, j \in DOMAIN s :
        i < j => (s[i] # s[j] /\ s[i].modelID <= s[j].modelID) }

\* the (i, j) of the nested loops, i < j, in loop order
RECURSIVE PairsFrom(_, _, _)
PairsFrom(i, j, n) ==
  IF i > n THEN <<>>
  ELSE IF j > n THEN PairsFrom(i + 1, i + 2, n)
  ELSE <<<<i, j>>>> \o PairsFrom(i, j + 1, n)

PairSeq(n) == PairsFrom(1, 2, n)

PairSet(n) == { p \in (1..n) \X (1..n) : p[1] < p[2] }

\* what findIntersection does for one pair: null, a result, or an exception
Outcomes ==
  { [type |-> "none", loc |-> 0], [type |-> "throw", loc |-> 0] }
  \cup [type : ConnectionTypes, loc : Locs]


(***************************************************************************)
(* Connection ids.  The id string `${a}-${b}` is modelled by the pair      *)
(* <<a, b>> of the two numbers it is built from.                           *)
(***************************************************************************)
\* PP: [elementA.expressID, elementB.expressID].sort((a, b) => a - b).join("-")
pairKey(elementA, elementB) ==
  IF elementA.expressID <= elementB.expressID
  THEN <<elementA.expressID, elementB.expressID>>
  ELSE <<elementB.expressID, elementA.expressID>>

\* CT (and the chunked revision): `${element1.expressID}-${element2.expressID}`
connectionId(element1, element2) ==
  <<element1.expressID, element2.expressID>>

ConnectionIdOf(r, a, b) ==
  IF r = "PP" THEN pairKey(a, b) ELSE connectionId(a, b)

addReference(refs, expressID, id) ==
  [refs EXCEPT ![expressID] = @ \cup {id}]

updateElementConnections(refs, expressId1, expressId2, id) ==
  addReference(addReference(refs, expressId1, id), expressId2, id)

\* the visualization createVisualization registers under data.id
PairVisualization(a, b) == [kind |-> "pair", key |-> <<a, b>>]

ConnectionVisualization(id) == [kind |-> "connection", key |-> id]

(***************************************************************************)
(* findConnections: the pair loop, from pair number k on.  acc carries the *)
(* local map, the fields of `this` the loop writes, and whether a pair     *)
(* threw (the exception leaves the loop: there is no try/catch in it).     *)
(***************************************************************************)
RECURSIVE findConnectionsPP(_, _, _, _)
findConnectionsPP(els, ct, k, acc) ==
  LET pairs == PairSeq(Len(els)) IN
  IF k > Len(pairs) \/ acc.threw THEN acc
  ELSE
    LET i == pairs[k][1]
        j == pairs[k][2]
        elementA == els[i]
        elementB == els[j]
        key == pairKey(elementA, elementB)
        intersection == ct[<<i, j>>]
    IN
    IF key \in acc.processedPairs
    THEN findConnectionsPP(els, ct, k + 1, acc)
    ELSE
      LET acc1 == [acc EXCEPT !.processedPairs = @ \cup {key},
                              !.run = @ \cup {<<i, j>>}]
      IN
      IF intersection.type = "throw" THEN [acc1 EXCEPT !.threw = TRUE]
      ELSE IF intersection.type = "none"
      THEN findConnectionsPP(els, ct, k + 1, acc1)
      ELSE findConnectionsPP(els, ct, k + 1,
             [acc1 EXCEPT
                !.connections =
                   (key :> [id |-> key, elements |-> <<elementA, elementB>>,
                            type |-> intersection.type]) @@ @,
                !.hasConnections =
                   [@ EXCEPT ![elementA] = TRUE, ![elementB] = TRUE],
                !.elementConnections =
                   addReference(addReference(@, elementA.expressID, key),
                                elementB.expressID, key),
                !.visualizations =
                   @ \cup {PairVisualization(elementA, elementB)}])

RECURSIVE findConnectionsCT(_, _, _, _)
findConnectionsCT(els, ct, k, acc) ==
  LET pairs == PairSeq(Len(els)) IN
  IF k > Len(pairs) \/ acc.threw THEN acc
  ELSE
    LET i == pairs[k][1]
        j == pairs[k][2]
        element1 == els[i]
        element2 == els[j]
        id == connectionId(element1, element2)
        intersection == ct[<<i, j>>]
        acc1 == [acc EXCEPT !.run = @ \cup {<<i, j>>}]
    IN
    IF intersection.type = "throw" THEN [acc1 EXCEPT !.threw = TRUE]
    ELSE IF intersection.type = "none"
    THEN findConnectionsCT(els, ct, k + 1, acc1)
    ELSE findConnectionsCT(els, ct, k + 1,
           [acc1 EXCEPT
              !.connections =
                 (id :> [id |-> id, elements |-> <<element1, element2>>,
                         type |-> intersection.type]) @@ @,
              !.elementConnections =
                 updateElementConnections(@, element1.expressID,
                                          element2.expressID, id)])

findConnections(r, els, ct, acc) ==
  IF r = "PP" THEN findConnectionsPP(els, ct, 1, acc)
  ELSE findConnectionsCT(els, ct, 1, acc)

(***************************************************************************)
(* Materials                                                               *)
(***************************************************************************)
SemiTransparent == [transparent |-> TRUE, opacity |-> 30, depthWrite |-> FALSE]

\* if (!mesh.userData.originalMaterial) originalMaterial = material.clone()
StashMaterials ==
  [m \in Meshes |->
     IF originalMaterial[m] = <<>> THEN <<meshMaterial[m]>>
     ELSE originalMaterial[m]]

\* exitConnectionMode: mesh.material = originalMaterial, stash deleted; CT
\* then forces the material opaque
RestoreMaterials(r) ==
  [m \in Meshes |->
     LET restored == IF originalMaterial[m] # <<>> THEN originalMaterial[m][1]
                     ELSE meshMaterial[m]
     IN IF r = "CT"
        THEN [restored EXCEPT !.transparent = FALSE, !.opacity = 100,
                              !.depthWrite = TRUE]
        ELSE restored]


(***************************************************************************)
(* analyzeConnections                                                      *)
(***************************************************************************)
\* the state findConnections starts from
LoopStart ==
  [connections |-> <<>>, elementConnections |-> elementConnections,
   hasConnections |-> hasConnections, processedPairs |-> {},
   visualizations |-> visualizations, threw |-> FALSE, run |-> {}]

\* PP: the whole of analyzeConnections; errBase is whether the error div is
\* displayed when the call starts
analyzeConnectionsPP(errBase) ==
  /\ connectionVisualizer' = <<[activeMode |-> TRUE]>>
  /\ isConnectionMode' = TRUE
  /\ originalMaterial' = StashMaterials
  /\ meshMaterial' = [m \in Meshes |-> SemiTransparent]
  /\ IF Len(elements) = 0
     THEN \* throw new Error("No elements found in scene") -> catch
          /\ errorShown' = TRUE
          /\ event' = "empty"
          /\ pairsRun' = {}
          /\ UNCHANGED <<connectionData, elementConnections, hasConnections,
                         rawIntersections, visualizations>>
     ELSE LET acc == findConnections("PP", elements, contact, LoopStart) IN
          /\ rawIntersections' = <<>>
          /\ elementConnections' = acc.elementConnections
          /\ hasConnections' = acc.hasConnections
          /\ pairsRun' = acc.run
          /\ IF acc.threw
             THEN \* the exception reaches the catch of analyzeConnections
                  /\ errorShown' = TRUE
                  /\ event' = "aborted"
                  /\ visualizations' = acc.visualizations
                  /\ UNCHANGED connectionData
             ELSE /\ connectionData' =
                       <<[elements |-> elements,
                          connections |-> acc.connections]>>
                  \* visualizeConnections: clear(), then one per connection
                  /\ visualizations' =
                       { ConnectionVisualization(id) :
                           id \in DOMAIN acc.connections }
                  /\ errorShown' = errBase
                  /\ event' = "committed"

\* CT: analyzeConnections from the point where the setTimeout(100) resolves
analyzeConnectionsCT ==
  LET visualizer == IF connectionVisualizer = <<>>
                    THEN <<[activeMode |-> FALSE]>>
                    ELSE connectionVisualizer
  IN
  IF Len(elements) = 0
  THEN \* throw new Error("No elements found in scene. ...") -> catch
       /\ connectionVisualizer' = visualizer
       /\ errorShown' = TRUE
       /\ event' = "empty"
       /\ pairsRun' = {}
       /\ UNCHANGED <<isConnectionMode, originalMaterial, meshMaterial,
                      connectionData, elementConnections, hasConnections,
                      rawIntersections, visualizations>>
  ELSE LET acc == findConnections("CT", elements, contact, LoopStart) IN
       /\ isConnectionMode' = TRUE
       /\ connectionVisualizer' = <<[activeMode |-> TRUE]>>
       /\ originalMaterial' = StashMaterials
       /\ meshMaterial' = [m \in Meshes |-> SemiTransparent]
       /\ elementConnections' = acc.elementConnections
       /\ pairsRun' = acc.run
       /\ UNCHANGED <<hasConnections, rawIntersections>>
       /\ IF acc.threw
          THEN /\ errorShown' = TRUE
               /\ event' = "aborted"
               /\ UNCHANGED <<connectionData, visualizations>>
          ELSE /\ connectionData' =
                    <<[elements |-> elements,
                       connections |-> acc.connections]>>
               \* visualizeConnections: clear(); every connection is skipped
               \* (connection.geometry is undefined)
               /\ visualizations' = {}
               /\ UNCHANGED errorShown
               /\ event' = "committed"

\* a call of analyzeConnections up to its first return to the event loop
analyzeConnections(errBase) ==
  /\ exited' = <<>>
  /\ IF rev = "PP"
     THEN /\ analyzeConnectionsPP(errBase)
          /\ UNCHANGED pending
     ELSE \* await new Promise((resolve) => setTimeout(resolve, 100))
          /\ pending < MaxPending
          /\ pending' = pending + 1
          /\ errorShown' = errBase
          /\ event' = "call"
          /\ UNCHANGED <<isConnectionMode, connectionVisualizer,
                         originalMaterial, meshMaterial, connectionData,
                         elementConnections, hasConnections, rawIntersections,
                         visualizations, pairsRun>>

exitConnectionMode ==
  /\ isConnectionMode' = FALSE
  /\ meshMaterial' = RestoreMaterials(rev)
  /\ originalMaterial' = [m \in Meshes |-> <<>>]
  /\ IF connectionVisualizer # <<>>
     THEN /\ visualizations' = {}
          /\ connectionVisualizer' = <<[activeMode |-> FALSE]>>
     ELSE UNCHANGED <<visualizations, connectionVisualizer>>
  /\ connectionData' = <<>>
  /\ exited' = <<[materials |-> meshMaterial', suspended |-> pending > 0]>>
  /\ event' = "exit"
  /\ UNCHANGED <<elementConnections, hasConnections, rawIntersections,
                 errorShown, pending, pairsRun>>

(***************************************************************************)
(* The session: the toolbar button, the Retry button and the timer         *)
(***************************************************************************)
SessionInit ==
  /\ rev \in Revs
  /\ elements \in getAllElements
  /\ contact \in [PairSet(Len(elements)) -> Outcomes]
  /\ meshMaterial \in [Meshes -> LoadMaterials]
  /\ originalMaterial = [m \in Meshes |-> <<>>]
  /\ isConnectionMode = FALSE
  /\ connectionVisualizer = <<>>
  /\ connectionData = <<>>
  /\ elementConnections = [e \in ExpressIDs |-> {}]
  /\ hasConnections = [e \in ElementInfo |-> FALSE]
  /\ rawIntersections = <<>>
  /\ visualizations = {}
  /\ sectionHidden = TRUE
  /\ errorShown = FALSE
  /\ pending = 0
  /\ event = "init"
  /\ pairsRun = {}
  /\ exited = <<>>
  /\ pts = <<>>
  /\ cls = <<>>
  /\ unit = 1

\* connectionsBtn click, section was hidden
ToggleAnalyze ==
  /\ sectionHidden
  /\ sectionHidden' = FALSE
  /\ analyzeConnections(errorShown)
  /\ UNCHANGED <<rev, elements, contact, pts, cls, unit>>

\* connectionsBtn click, section was visible
ToggleExit ==
  /\ ~sectionHidden
  /\ sectionHidden' = TRUE
  /\ exitConnectionMode
  /\ UNCHANGED <<rev, elements, contact, pts, cls, unit>>

\* click on the Retry button of the error div
RetryAnalysis ==
  /\ errorShown
  /\ analyzeConnections(FALSE)
  /\ UNCHANGED <<rev, elements, contact, sectionHidden, pts, cls, unit>>

\* the setTimeout(100) of a suspended CT call fires
TimerFired ==
  /\ pending > 0
  /\ pending' = pending - 1
  /\ analyzeConnectionsCT
  /\ UNCHANGED <<rev, elements, contact, sectionHidden, exited, pts, cls, unit>>

Next == ToggleAnalyze \/ ToggleExit \/ RetryAnalysis \/ TimerFired

Spec == SessionInit /\ [][Next]_vars


(***************************************************************************)
(* Properties of the session                                               *)
(***************************************************************************)
\* the published ConnectionSet (empty when connectionData is null)
Published == IF connectionData = <<>> THEN <<>> ELSE connectionData[1].connections

PublishedElements == IF connectionData = <<>> THEN <<>> ELSE connectionData[1].elements

Touching(n) == { p \in PairSet(n) : contact[p].type \in ConnectionTypes }

PairElements(els, p) == <<els[p[1]], els[p[2]]>>

\* the elements with a raw contact point in location bucket loc
BucketElements(loc) ==
  UNION { {elements[p[1]], elements[p[2]]} :
            p \in { q \in Touching(Len(elements)) : contact[q].loc = loc } }

\* the pair p has a raw contact point in a bucket shared by >= 3 elements
AtJunction(p) ==
  /\ contact[p].type \in ConnectionTypes
  /\ Cardinality(BucketElements(contact[p].loc)) >= 3

\* C1: after findConnections the id-to-pair mapping of the ConnectionSet is a
\* bijection: every touching unordered pair of (modelID, expressID) elements
\* has a Connection record, and two different touching pairs never get the
\* same id.
C1_IdPairBijection ==
  connectionData # <<>> =>
    LET els == PublishedElements
        n == Len(els)
    IN /\ \A p \in Touching(n) :
            \E id \in DOMAIN Published :
              Published[id].elements = PairElements(els, p)
       /\ \A p, q \in Touching(n) :
            p # q => ConnectionIdOf(rev, els[p[1]], els[p[2]])
                       # ConnectionIdOf(rev, els[q[1]], els[q[2]])

\* C2: the connection id is symmetric in its two elements: the id recorded for
\* a pair met as (A, B) is the id synthesized when it is met as (B, A), and no
\* two records of the ConnectionSet are about the same unordered pair.
C2_IdSymmetric ==
  /\ \A id \in DOMAIN Published :
       LET c == Published[id] IN
       c.id = ConnectionIdOf(rev, c.elements[2], c.elements[1])
  /\ \A id1, id2 \in DOMAIN Published :
       {Published[id1].elements[1], Published[id1].elements[2]}
         = {Published[id2].elements[1], Published[id2].elements[2]}
       => id1 = id2

\* C3: the published ConnectionSet holds no Connection of type point unless
\* its element pair has a raw contact point in a location bucket shared by at
\* least three distinct elements.
C3_PointsOnlyAtJunctions ==
  \A p \in PairSet(Len(PublishedElements)) :
    \A id \in DOMAIN Published :
      (/\ Published[id].elements = PairElements(PublishedElements, p)
       /\ Published[id].type = "point")
      => AtJunction(p)

\* C4: when exitConnectionMode was called while a pass was suspended, then
\* once no pass is suspended any more the ConnectionSet is still empty, no
\* visualization is in the scene, connection mode is off and the materials are
\* the ones exitConnectionMode restored.
C4_CancelledPassLeavesNothing ==
  (exited # <<>> /\ exited[1].suspended /\ pending = 0) =>
    /\ DOMAIN Published = {}
    /\ visualizations = {}
    /\ ~isConnectionMode
    /\ meshMaterial = exited[1].materials

\* C5: the ConnectionSet, the reverse index and the hasConnections flags show
\* nothing of a pass before it commits: between two returns to the event loop
\* a pass changes them only in the step in which it commits.
C5_NothingBeforeCommit ==
  [][ (\/ elementConnections' # elementConnections
       \/ hasConnections' # hasConnections
       \/ (connectionData' # connectionData /\ event' # "exit"))
      => event' = "committed" ]_vars

\* C6: the ConnectionSet changes only by being replaced wholesale with the
\* result of the pass that has just completed or by being cleared by
\* exitConnectionMode, and from exitConnectionMode until analyzeConnections is
\* called again it holds no record.
C6_OnlyLatestPassAndEmptyAfterExit ==
  [][ /\ Published' # Published =>
           \/ (event' = "exit" /\ DOMAIN Published' = {})
           \/ (/\ event' = "committed"
               /\ Published' = findConnections(rev, elements, contact,
                                               LoopStart).connections)
      /\ exited' # <<>> => DOMAIN Published' = {} ]_vars

\* C7: the reverse index agrees with the current ConnectionSet: for every
\* element e, elementConnections[e] is exactly the set of ids of the published
\* Connections e takes part in, and e's hasConnections flag is true exactly
\* when that set is not empty.
C7_ReverseIndexAgrees ==
  \A k \in DOMAIN elements :
    LET e == elements[k]
        mine == { id \in DOMAIN Published :
                    e \in {Published[id].elements[1], Published[id].elements[2]} }
    IN /\ elementConnections[e.expressID] = mine
       /\ hasConnections[e] <=> (mine # {})

\* C8: a pair whose pipeline throws does not abort the batch: the pass runs
\* every pair, commits, and publishes a Connection for every touching pair.
C8_PairFailureDoesNotAbort ==
  (/\ event \in {"committed", "aborted"}
   /\ \E p \in PairSet(Len(elements)) : contact[p].type = "throw")
  => /\ event = "committed"
     /\ pairsRun = PairSet(Len(elements))
     /\ \A p \in Touching(Len(elements)) :
          \E id \in DOMAIN Published :
            Published[id].elements = PairElements(elements, p)

\* C9: analyzeConnections on an empty element list reports the error and
\* leaves the session as it was: the ConnectionSet is unchanged, connection
\* mode is not entered and no mesh material is modified.
C9_EmptySceneLeavesSession ==
  [][ event' = "empty" =>
        /\ errorShown'
        /\ connectionData' = connectionData
        /\ isConnectionMode' = isConnectionMode
        /\ meshMaterial' = meshMaterial
        /\ originalMaterial' = originalMaterial ]_vars


(***************************************************************************)
(* The contact classifier and the measurements.  Points have integer       *)
(* coordinates, in grid steps; unit is the number of steps in a metre.     *)
(***************************************************************************)
GridX == 2
GridY == 1
GridZ == 1
MaxPoints == 5

\* grids of 1 m and of 4 cm
GridStepsPerMetre == {1, 25}

Grid == (0..GridX) \X (0..GridY) \X (0..GridZ)

subVectors(a, b) == <<a[1] - b[1], a[2] - b[2], a[3] - b[3]>>

crossVectors(a, b) ==
  <<a[2] * b[3] - a[3] * b[2], a[3] * b[1] - a[1] * b[3],
    a[1] * b[2] - a[2] * b[1]>>

dot(a, b) == a[1] * b[1] + a[2] * b[2] + a[3] * b[3]

RECURSIVE SumPoints(_, _)
SumPoints(points, k) ==
  IF k = 0 THEN <<0, 0, 0>>
  ELSE LET r == SumPoints(points, k - 1) IN
       <<r[1] + points[k][1], r[2] + points[k][2], r[3] + points[k][3]>>

\* the largest r with r * r <= x
RECURSIVE ISqrt(_)
ISqrt(x) ==
  IF x < 2 THEN x
  ELSE LET s == 2 * ISqrt(x \div 4) IN
       IF (s + 1) * (s + 1) <= x THEN s + 1 ELSE s

\* A length or an area is kept exact, as the vectors whose lengths the code
\* adds up and the number it divides by: [terms, den] is the number
\* (|terms[1]| + ... + |terms[n]|) / den, in steps or square steps.
Zero == [terms |-> <<>>, den |-> 1]

RECURSIVE SumFloorLengths(_, _)
SumFloorLengths(terms, k) ==
  IF k = 0 THEN 0
  ELSE SumFloorLengths(terms, k - 1) + ISqrt(dot(terms[k], terms[k]))

\* the whole part of den * m; the sum of the lengths is never within
\* Len(terms) of the thresholds it is compared with on these grids
FloorOfSum(m) == SumFloorLengths(m.terms, Len(m.terms))

IsZero(m) == \A k \in 1..Len(m.terms) : m.terms[k] = <<0, 0, 0>>

\* a path length that also adds the segment from the last point to the first
calculateLengthClosed(points) ==
  [terms |-> [i \in 1..Len(points) |->
                subVectors(points[i], points[(i % Len(points)) + 1])],
   den |-> 1]

\* the distances from the first point to each of the others, added up
calculateLengthFromFirst(points) ==
  [terms |-> [i \in 1..(Len(points) - 1) |->
                subVectors(points[1], points[i + 1])],
   den |-> 1]

\* a fan that leaves out the triangle (center, p[n], p[1])
calculateAreaOpenFan(points) ==
  LET n == Len(points)
      S == SumPoints(points, n)
      scaled(k) == <<n * points[k][1] - S[1], n * points[k][2] - S[2],
                     n * points[k][3] - S[3]>>
  IN IF n < 3 THEN Zero
     ELSE [terms |-> [i \in 1..(n - 1) |->
                        crossVectors(scaled(i), scaled(i + 1))],
           den |-> 2 * n * n]

\* calculateLength: the distances between consecutive points, added up
calculateLength(points) ==
  [terms |-> [i \in 1..(Len(points) - 1) |->
                subVectors(points[i], points[i + 1])],
   den |-> 1]

\* calculateArea: the fan of triangles (center, p[i], p[i+1 mod n]).  With
\* S the sum of the n points, (p - center) = (n p - S) / n, so the triangle
\* i has area |(n p[i] - S) x (n p[i+1] - S)| / (2 n^2).
calculateArea(points) ==
  LET n == Len(points)
      S == SumPoints(points, n)
      scaled(k) == <<n * points[k][1] - S[1], n * points[k][2] - S[2],
                     n * points[k][3] - S[3]>>
  IN IF n < 3 THEN Zero
     ELSE [terms |-> [i \in 1..n |->
                        crossVectors(scaled(i), scaled((i % n) + 1))],
           den |-> 2 * n * n]

\* calculateMeasurements of the first FastIntersectionDetector: the length,
\* and the area when there are 3 points or more (<<>> is undefined)
calculateMeasurements(points) ==
  [length |-> <<calculateLength(points)>>,
   area |-> IF Len(points) >= 3 THEN <<calculateArea(points)>> ELSE <<>>]

\* calculateMeasurements of the second FastIntersectionDetector: the area is
\* the fan of triangles (p[0], p[i], p[i+1]), 0 < i < n - 1
calculateMeasurementsRev2(points) ==
  IF Len(points) <= 1 THEN [length |-> <<Zero>>, area |-> <<Zero>>]
  ELSE [length |-> <<calculateLength(points)>>,
        area |-> << [terms |-> [i \in 1..(Len(points) - 2) |->
                                  crossVectors(
                                    subVectors(points[i + 1], points[1]),
                                    subVectors(points[i + 2], points[1]))],
                     den |-> 2] >>]

\* Math.abs(plane.distanceToPoint(point)) > 0.001 for the plane through
\* points[0] with normal cross(v1, v2).normalize().  With c the cross product
\* the distance is |c . (point - points[0])| / |c| steps; normalize() leaves
\* a zero vector zero, and the distance is then 0.
OffPlane(points, point) ==
  LET c == crossVectors(subVectors(points[2], points[1]),
                        subVectors(points[3], points[1]))
      d == dot(c, subVectors(point, points[1]))
  IN IF dot(c, c) = 0 THEN FALSE
     ELSE d * d > (unit * unit * dot(c, c)) \div 1000000

\* calculateArea(points) < 0.001, in square metres
AreaBelowMinimum(points) ==
  LET area == calculateArea(points)
  IN 1000 * FloorOfSum(area) < area.den * unit * unit

\* the classifier without its area check
determineConnectionTypeNoAreaCheck(points) ==
  IF Len(points) < 2 THEN "point"
  ELSE IF Len(points) < 4 THEN "line"
  ELSE IF \E k \in 1..Len(points) : OffPlane(points, points[k]) THEN "line"
  ELSE "surface"

determineConnectionType(points) ==
  IF Len(points) < 2 THEN "point"
  ELSE IF Len(points) < 4 THEN "line"
  ELSE IF \E k \in 1..Len(points) : OffPlane(points, points[k]) THEN "line"
  ELSE IF AreaBelowMinimum(points) THEN "line"
  ELSE "surface"

classifyIntersectionType(points) ==
  IF Len(points) <= 2 THEN "point"
  ELSE IF Len(points) <= 4 THEN "line"
  ELSE "surface"

\* createIntersectionVisualization: surfaceGeometry.boundingSphere is never
\* computed, so the validation sets surfaceGeometry to null
createIntersectionVisualization(uniquePoints) ==
  LET surfaceGeometry == <<>> IN
  IF Len(uniquePoints) <= 2 THEN "point"
  ELSE IF surfaceGeometry = <<>> \/ Len(uniquePoints) <= 4 THEN "line"
  ELSE "surface"

ClassifierInit ==
  /\ pts = <<>>
  /\ cls = <<>>
  /\ unit \in GridStepsPerMetre
  /\ rev = "PP"
  /\ elements = <<>>
  /\ contact = <<>>
  /\ meshMaterial = [m \in Meshes |-> SemiTransparent]
  /\ originalMaterial = [m \in Meshes |-> <<>>]
  /\ isConnectionMode = FALSE
  /\ connectionVisualizer = <<>>
  /\ connectionData = <<>>
  /\ elementConnections = [e \in ExpressIDs |-> {}]
  /\ hasConnections = [e \in ElementInfo |-> FALSE]
  /\ rawIntersections = <<>>
  /\ visualizations = {}
  /\ sectionHidden = TRUE
  /\ errorShown = FALSE
  /\ pending = 0
  /\ event = "init"
  /\ pairsRun = {}
  /\ exited = <<>>

\* one more point, at least one step from the others, joins the canonical point
\* set, and the set is classified
PushPoint ==
  /\ Len(pts) < MaxPoints
  /\ \E point \in Grid :
       /\ \A k \in 1..Len(pts) : pts[k] # point
       /\ pts' = Append(pts, point)
  /\ cls' = [determine |-> determineConnectionType(pts'),
             classify |-> classifyIntersectionType(pts'),
             visualization |-> createIntersectionVisualization(pts'),
             length |-> calculateLength(pts'),
             area |-> calculateArea(pts'),
             measurements |-> calculateMeasurements(pts'),
             measurementsRev2 |-> calculateMeasurementsRev2(pts')]
  /\ UNCHANGED <<sessionVars, unit>>

ClassifierNext == PushPoint

ClassifierSpec == ClassifierInit /\ [][ClassifierNext]_vars

\* C10: the classification is fixed by cardinality for small sets: 1 point
\* is point, 2 points are point, 3 or 4 points are line, and surface is
\* returned only for 5 or more points.
C10_CardinalityDecides ==
  pts # <<>> =>
    \A r \in {cls.determine, cls.classify, cls.visualization} :
      /\ Len(pts) <= 2 => r = "point"
      /\ Len(pts) \in {3, 4} => r = "line"
      /\ r = "surface" => Len(pts) >= 5

(***************************************************************************)
(* Planarity and area                                                      *)
(***************************************************************************)
FirstThreeCollinear(points) ==
  crossVectors(subVectors(points[2], points[1]),
               subVectors(points[3], points[1])) = <<0, 0, 0>>

\* points[k] is at most 1 mm from the plane through the first three points:
\* 1000 |c . (p - p1)| <= unit |c|, c the normal of that plane
WithinPlaneTolerance(points, k) ==
  LET c == crossVectors(subVectors(points[2], points[1]),
                        subVectors(points[3], points[1]))
      d == dot(c, subVectors(points[k], points[1]))
  IN 1000000 * d * d <= unit * unit * dot(c, c)

AllWithinPlaneTolerance(points) ==
  \A k \in 1..Len(points) : WithinPlaneTolerance(points, k)

\* the fan area is at least 0.001 square metres
AreaReachesMinimum(points) ==
  1000 * FloorOfSum(calculateArea(points)) >=
    calculateArea(points).den * unit * unit

C12_DegeneratePlaneIsLine ==
  (Len(pts) >= 3 /\ FirstThreeCollinear(pts)) => cls.determine = "line"

(***************************************************************************)
(* The contact points of one pair: ray hits, filtered and deduplicated.    *)
(***************************************************************************)
MaxHits == 3

\* dedup tolerances, in millimetres: the 1 mm of findPreciseTouchingPoints,
\* the 1 cm of createIntersectionVisualization, and one above a 4 cm step
ToleranceMillimetres == {1, 10, 50}

HitGrid == { p \in Grid : p[3] = 0 }

\* a coordinate of a hit point is a finite number, NaN or +-Infinity
Coords == {"finite", "NaN", "Infinity"}

\* intersects[0] of raycaster.intersectObject: the hit point, and whether
\* intersects[0].distance < 0.001.  The distance is the one from the ray
\* origin to the hit point, so it is NaN or Infinity when a coordinate is.
Intersections ==
  { h \in [point : HitGrid, coord : Coords, near : BOOLEAN] :
      h.coord # "finite" => ~h.near }

HitPoint(h) == [point |-> h.point, coord |-> h.coord]

\* a.distanceTo(b) < threshold; a comparison with NaN or Infinity is false
distanceBelow(a, b, millimetres) ==
  /\ a.coord = "finite"
  /\ b.coord = "finite"
  /\ 1000000 * dot(subVectors(a.point, b.point), subVectors(a.point, b.point))
       < millimetres * millimetres * unit * unit

RECURSIVE removeDuplicatePointsUpTo(_, _, _)
removeDuplicatePointsUpTo(points, threshold, k) ==
  IF k = 0 THEN <<>>
  ELSE LET unique == removeDuplicatePointsUpTo(points, threshold, k - 1)
       IN IF \E i \in 1..Len(unique) :
               distanceBelow(points[k], unique[i], threshold)
          THEN unique
          ELSE Append(unique, points[k])

\* a scan that compares a point with the last accepted point only
RECURSIVE removeDuplicatePointsLastOnlyUpTo(_, _, _)
removeDuplicatePointsLastOnlyUpTo(points, threshold, k) ==
  IF k = 0 THEN <<>>
  ELSE LET unique == removeDuplicatePointsLastOnlyUpTo(points, threshold, k - 1)
       IN IF unique # <<>> /\ distanceBelow(points[k], unique[Len(unique)],
                                            threshold)
          THEN unique
          ELSE Append(unique, points[k])

removeDuplicatePointsLastOnly(points, threshold) ==
  removeDuplicatePointsLastOnlyUpTo(points, threshold, Len(points))

\* a scan that merges a point into the accepted point it is close to, and
\* keeps the later of the two
RECURSIVE removeDuplicatePointsKeepLaterUpTo(_, _, _)
removeDuplicatePointsKeepLaterUpTo(points, threshold, k) ==
  IF k = 0 THEN <<>>
  ELSE LET unique == removeDuplicatePointsKeepLaterUpTo(points, threshold, k - 1)
           close == { i \in 1..Len(unique) :
                        distanceBelow(points[k], unique[i], threshold) }
       IN IF close # {}
          THEN [unique EXCEPT ![CHOOSE i \in close : \A j \in close : i <= j]
                                 = points[k]]
          ELSE Append(unique, points[k])

removeDuplicatePointsKeepLater(points, threshold) ==
  removeDuplicatePointsKeepLaterUpTo(points, threshold, Len(points))

removeDuplicatePoints(points, threshold) ==
  removeDuplicatePointsUpTo(points, threshold, Len(points))

\* findPreciseTouchingPoints: a hit is pushed when its distance is below
\* 1 mm, and the pushed points are deduplicated with that tolerance
findPreciseTouchingPoints(hits) ==
  LET touchingPoints ==
        [ k \in 1..Len(SelectSeq(hits, LAMBDA h : h.near)) |->
            HitPoint(SelectSeq(hits, LAMBDA h : h.near)[k]) ]
  IN removeDuplicatePoints(touchingPoints, 1)

\* raycastIntersection pushes every hit; createIntersectionVisualization
\* skips the points with a NaN coordinate and deduplicates with 1 cm
uniquePoints(hits) ==
  LET notNaN == SelectSeq(hits, LAMBDA h : h.coord # "NaN")
  IN removeDuplicatePoints([k \in 1..Len(notNaN) |-> HitPoint(notNaN[k])], 10)

DedupInit ==
  /\ pts = <<>>
  /\ cls = <<>>
  /\ unit \in GridStepsPerMetre
  /\ rev = "PP"
  /\ elements = <<>>
  /\ contact = <<>>
  /\ meshMaterial = [m \in Meshes |-> SemiTransparent]
  /\ originalMaterial = [m \in Meshes |-> <<>>]
  /\ isConnectionMode = FALSE
  /\ connectionVisualizer = <<>>
  /\ connectionData = <<>>
  /\ elementConnections = [e \in ExpressIDs |-> {}]
  /\ hasConnections = [e \in ElementInfo |-> FALSE]
  /\ rawIntersections = <<>>
  /\ visualizations = {}
  /\ sectionHidden = TRUE
  /\ errorShown = FALSE
  /\ pending = 0
  /\ event = "init"
  /\ pairsRun = {}
  /\ exited = <<>>

\* one more ray hits the other mesh; the hits so far are turned into the
\* pair's contact points
RayHit ==
  /\ Len(pts) < MaxHits
  /\ \E h \in Intersections : pts' = Append(pts, h)
  /\ \E threshold \in ToleranceMillimetres :
       LET raw == [k \in 1..Len(pts') |-> HitPoint(pts'[k])]
           unique == removeDuplicatePoints(raw, threshold)
       IN cls' = [threshold |-> threshold,
                  unique |-> unique,
                  again |-> removeDuplicatePoints(unique, threshold),
                  touchingPoints |-> findPreciseTouchingPoints(pts'),
                  uniquePoints |-> uniquePoints(pts')]
  /\ UNCHANGED <<sessionVars, unit>>

DedupNext == RayHit

DedupSpec == DedupInit /\ [][DedupNext]_vars

NoTwoBelow(points, threshold) ==
  \A i, j \in 1..Len(points) :
    i # j => ~distanceBelow(points[i], points[j], threshold)

\* C13: the output of the Point Deduplicator has no two distinct points
\* whose distance is below the tolerance, for every input and tolerance.
C13_NoTwoPointsWithinTolerance ==
  pts # <<>> =>
    /\ NoTwoBelow(cls.unique, cls.threshold)
    /\ NoTwoBelow(cls.touchingPoints, 1)
    /\ NoTwoBelow(cls.uniquePoints, 10)

C13_ClosePointDropped ==
  /\ Len(pts) = 3
  /\ Len(cls.unique) = 2
  /\ \A k \in 1..3 : pts[k].coord = "finite"
  /\ pts[1].point # pts[2].point
  /\ distanceBelow(HitPoint(pts[1]), HitPoint(pts[2]), cls.threshold)

\* C14: the Point Deduplicator applied to its own output returns it
\* unchanged, the same points in the same order.
C14_DedupIdempotent ==
  pts # <<>> => cls.again = cls.unique

C14_ChainKeepsEnds ==
  /\ Len(pts) = 3
  /\ cls.unique = <<HitPoint(pts[1]), HitPoint(pts[3])>>
  /\ distanceBelow(HitPoint(pts[2]), HitPoint(pts[3]), cls.threshold)
  /\ cls.again = cls.unique

NonFinite(points) == { k \in 1..Len(points) : points[k].coord # "finite" }

\* C15: no point with a NaN or infinite coordinate is in the touching-point
\* set of the Contact Point Finder or in the canonical point set.
C15_NoNonFinitePoints ==
  pts # <<>> =>
    /\ NonFinite(cls.touchingPoints) = {}
    /\ NonFinite(cls.uniquePoints) = {}

(***************************************************************************)
(* The bounding-box tests of one pair.  Box coordinates are whole numbers  *)
(* of steps of BoxStepMillimetres.                                         *)
(***************************************************************************)
BoxMax == 2
BoxStepMillimetres == 5

\* Box3.setFromObject: min <= max on every axis
Box3 ==
  { b \in [min : (0..BoxMax) \X (0..BoxMax) \X (0..BoxMax),
           max : (0..BoxMax) \X (0..BoxMax) \X (0..BoxMax)] :
      \A axis \in 1..3 : b.min[axis] <= b.max[axis] }

Max3(a, b, c) ==
  IF a >= b /\ a >= c THEN a ELSE IF b >= c THEN b ELSE c

\* getMinimumDistance, squared, in steps
getMinimumDistanceSq(box1, box2) ==
  LET gap(axis) == Max3(box1.min[axis] - box2.max[axis],
                        box2.min[axis] - box1.max[axis], 0)
  IN gap(1) * gap(1) + gap(2) * gap(2) + gap(3) * gap(3)

\* THREE.Box3.intersectsBox
intersectsBox(boxA, boxB) ==
  ~ \E axis \in 1..3 :
      boxB.max[axis] < boxA.min[axis] \/ boxB.min[axis] > boxA.max[axis]

\* findIntersection up to the Contact Point Finder: which bounding-box test
\* returns null for the pair, in the PropertiesPanel.ts revision (its own
\* distance test, then the detector's) and in the Connections.ts revision
\* (the detector's only)
boxTests(r, box1, box2) ==
  IF r = "PP" /\ getMinimumDistanceSq(box1, box2) * BoxStepMillimetres
                   * BoxStepMillimetres > 100
  THEN "minDist"
  ELSE IF ~intersectsBox(box1, box2) THEN "intersectsBox"
  ELSE "passed"

ProximityInit ==
  /\ pts = <<>>
  /\ cls = <<>>
  /\ unit = 1
  /\ rev \in Revs
  /\ elements = <<>>
  /\ contact = <<>>
  /\ meshMaterial = [m \in Meshes |-> SemiTransparent]
  /\ originalMaterial = [m \in Meshes |-> <<>>]
  /\ isConnectionMode = TRUE
  /\ connectionVisualizer = <<>>
  /\ connectionData = <<>>
  /\ elementConnections = [e \in ExpressIDs |-> {}]
  /\ hasConnections = [e \in ElementInfo |-> FALSE]
  /\ rawIntersections = <<>>
  /\ visualizations = {}
  /\ sectionHidden = FALSE
  /\ errorShown = FALSE
  /\ pending = 0
  /\ event = "init"
  /\ pairsRun = {}
  /\ exited = <<>>

\* findIntersection is called for a pair of elements with these boxes
BoxCheck ==
  /\ pts = <<>>
  /\ \E box1, box2 \in Box3 :
       /\ pts' = <<box1, box2>>
       /\ cls' = [rejectedBy |-> boxTests(rev, box1, box2)]
  /\ UNCHANGED <<sessionVars, unit>>

ProximityNext == BoxCheck

ProximitySpec == ProximityInit /\ [][ProximityNext]_vars

\* the distance between the two boxes is at most 1 cm
BoxesWithinThreshold(box1, box2) ==
  getMinimumDistanceSq(box1, box2) * BoxStepMillimetres * BoxStepMillimetres
    <= 100

\* C16: a pair whose bounding boxes are within 1 cm of each other, a gap of
\* up to 1 cm included, is not rejected by a bounding-box test and reaches
\* the Contact Point Finder.
C16_NoFalseNegative ==
  (pts # <<>> /\ BoxesWithinThreshold(pts[1], pts[2])) =>
    cls.rejectedBy = "passed"

(***************************************************************************)
(* Measurements                                                            *)
(***************************************************************************)
Reverse(points) == [i \in 1..Len(points) |-> points[Len(points) + 1 - i]]

\* what calculateLength and calculateArea return for the current points
CurrentLength == IF pts = <<>> THEN calculateLength(pts) ELSE cls.length

CurrentArea == IF pts = <<>> THEN calculateArea(pts) ELSE cls.area

\* the sum has one term for every i < n, as long as the segment from
\* points[i] to points[i+1]
IsOpenPolyline(m, points) ==
  /\ m.den = 1
  /\ Len(m.terms) = (IF Len(points) = 0 THEN 0 ELSE Len(points) - 1)
  /\ \A i \in 1..Len(m.terms) :
       dot(m.terms[i], m.terms[i]) =
         dot(subVectors(points[i + 1], points[i]),
             subVectors(points[i + 1], points[i]))

\* C17: length(points) is the sum of the distances between consecutive
\* points, without a closing segment; it is 0 for the empty sequence and
\* for a single point, and never negative.
C17_LengthIsOpenPolyline ==
  /\ IsOpenPolyline(CurrentLength, pts)
  /\ Len(pts) <= 1 => IsZero(CurrentLength) /\ FloorOfSum(CurrentLength) = 0
  /\ FloorOfSum(CurrentLength) >= 0
  /\ pts # <<>> => IsOpenPolyline(cls.measurements.length[1], pts)

C17_ThreeSegments ==
  /\ Len(pts) = 4
  /\ pts[1] # pts[4]
  /\ Len(cls.length.terms) = 3
  /\ FloorOfSum(cls.length) >= 3

\* the two sums add up the same lengths, each as many times
SameLengths(m1, m2) ==
  /\ m1.den = m2.den
  /\ \A t \in {m1.terms[i] : i \in 1..Len(m1.terms)}
            \cup {m2.terms[i] : i \in 1..Len(m2.terms)} :
       Cardinality({ i \in 1..Len(m1.terms) :
                       dot(m1.terms[i], m1.terms[i]) = dot(t, t) }) =
       Cardinality({ i \in 1..Len(m2.terms) :
                       dot(m2.terms[i], m2.terms[i]) = dot(t, t) })

AllCollinear(points) ==
  \A i, j \in 1..Len(points) :
    crossVectors(subVectors(points[i], points[1]),
                 subVectors(points[j], points[1])) = <<0, 0, 0>>

\* C18 (as the code behaves): length(points) equals length(reverse(points))
\* for every point sequence; the reversed path has the same segments.
C18_ReversalKeepsLength ==
  pts # <<>> => SameLengths(calculateLength(Reverse(pts)), cls.length)

C18_ReversedBentPath ==
  /\ Len(pts) >= 3
  /\ ~AllCollinear(pts)
  /\ dot(cls.length.terms[1], cls.length.terms[1]) #
       dot(cls.length.terms[Len(pts) - 1], cls.length.terms[Len(pts) - 1])
  /\ SameLengths(calculateLength(Reverse(pts)), cls.length)

\* C18 (as stated): the length is the same after reversing only for sets of
\* at most 2 points; reversing 3 or more non-collinear points changes it.
C18_ReversalOnlyForTwoPoints ==
  (Len(pts) >= 3 /\ ~AllCollinear(pts)) =>
    ~SameLengths(calculateLength(Reverse(pts)), cls.length)

\* twice the vector area of the polygon p[1], ..., p[n]
RECURSIVE PolygonVectorArea2(_, _)
PolygonVectorArea2(points, k) ==
  IF k = 0 THEN <<0, 0, 0>>
  ELSE LET r == PolygonVectorArea2(points, k - 1)
           c == crossVectors(points[k], points[(k % Len(points)) + 1])
       IN <<r[1] + c[1], r[2] + c[2], r[3] + c[3]>>

\* the points are the vertices of a convex planar polygon, in boundary
\* order: they lie in one plane, and every other vertex is strictly to the
\* same side of every edge
ConvexInBoundaryOrder(points) ==
  LET n == Len(points)
      V == PolygonVectorArea2(points, n)
  IN /\ n >= 3
     /\ V # <<0, 0, 0>>
     /\ \A k \in 1..n : dot(subVectors(points[k], points[1]), V) = 0
     /\ \A i \in 1..n : \A k \in (1..n) \ {i, (i % n) + 1} :
          dot(crossVectors(subVectors(points[(i % n) + 1], points[i]),
                           subVectors(points[k], points[i])), V) > 0

RECURSIVE SumAlong(_, _, _)
SumAlong(terms, V, k) ==
  IF k = 0 THEN 0
  ELSE LET d == dot(terms[k], V) IN
       SumAlong(terms, V, k - 1) + (IF d < 0 THEN 0 - d ELSE d)

\* m is exactly the area |V| / 2 of the polygon with vector area V / 2:
\* every term is parallel to V, so |t| = |t . V| / |V|
IsPolygonArea(m, V) ==
  /\ \A k \in 1..Len(m.terms) : crossVectors(m.terms[k], V) = <<0, 0, 0>>
  /\ 2 * SumAlong(m.terms, V, Len(m.terms)) = m.den * dot(V, V)

UnitSquare == << <<0, 0, 0>>, <<1, 0, 0>>, <<1, 1, 0>>, <<0, 1, 0>> >>

\* C19: for a convex planar polygon with its vertices in boundary order the
\* fan area is exactly the polygon's area, 1 for the unit square; for fewer
\* than 3 points the area is 0.
C19_FanAreaExactForConvex ==
  /\ Len(pts) < 3 => CurrentArea = Zero
  /\ Len(pts) \in {1, 2} => IsZero(cls.measurementsRev2.area[1])
  /\ ConvexInBoundaryOrder(pts) =>
       /\ IsPolygonArea(cls.area, PolygonVectorArea2(pts, Len(pts)))
       /\ IsPolygonArea(cls.measurementsRev2.area[1],
                        PolygonVectorArea2(pts, Len(pts)))
  /\ pts = UnitSquare =>
       /\ FloorOfSum(cls.area) = cls.area.den
       /\ \A k \in 1..4 : cls.area.terms[k] = <<0, 0, 8>>

C19_UnitSquareHasAreaOne ==
  /\ pts = UnitSquare
  /\ unit = 1
  /\ ConvexInBoundaryOrder(pts)
  /\ FloorOfSum(cls.area) = cls.area.den

(***************************************************************************)
(* The CSV export of a ConnectionSet built from canonical point sets.      *)
(***************************************************************************)
LineMax == 4
MaxConnections == 2

\* contact points along an edge, and one point beside it
ExportGrid ==
  { p \in (0..LineMax) \X (0..1) \X (0..0) : p[1] = 0 \/ p[2] = 0 }

\* the code that turns a pair's points into the type and the measurements
\* of its Connection: findIntersection of PropertiesPanel.ts, or the
\* detector result used as it is by Connections.ts, with the first or the
\* second FastIntersectionDetector
Pipelines == {"PP", "CT", "CTRev2"}

\* what exportConnectionsCSV tests of a measurement: undefined, 0 or not
Truthiness(measurement) ==
  IF measurement = <<>> THEN "undefined"
  ELSE IF IsZero(measurement[1]) THEN "zero"
  ELSE "positive"

\* the intersection of a pair with these contact points; <<>> is null
findIntersection(pipeline, points) ==
  IF pipeline = "PP" THEN
    IF points = <<>> THEN <<>>
    ELSE LET type == determineConnectionType(points) IN
         << [type |-> type,
             length |-> Truthiness(IF type = "line"
                                   THEN <<calculateLength(points)>>
                                   ELSE <<>>),
             area |-> Truthiness(IF type = "surface"
                                 THEN <<calculateArea(points)>>
                                 ELSE <<>>)] >>
  ELSE IF pipeline = "CT" THEN
    IF points = <<>> THEN <<>>
    ELSE << [type |-> createIntersectionVisualization(points),
             length |-> Truthiness(calculateMeasurements(points).length),
             area |-> Truthiness(calculateMeasurements(points).area)] >>
  ELSE
    IF Len(points) < 3 THEN <<>>
    ELSE << [type |-> classifyIntersectionType(points),
             length |-> Truthiness(calculateMeasurementsRev2(points).length),
             area |-> Truthiness(calculateMeasurementsRev2(points).area)] >>

\* one row of exportConnectionsCSV: the connection type, the measurement
\* type and the unit
exportRow(connection) ==
  IF connection.type = "surface" /\ connection.area = "positive"
  THEN [type |-> connection.type, measurementType |-> "Area", unit |-> "m2"]
  ELSE IF connection.type = "line" /\ connection.length = "positive"
  THEN [type |-> connection.type, measurementType |-> "Length", unit |-> "m"]
  ELSE IF connection.type = "point"
  THEN [type |-> connection.type, measurementType |-> "Point", unit |-> "N/A"]
  ELSE [type |-> connection.type, measurementType |-> "", unit |-> ""]

exportConnectionsCSV(connections) ==
  [i \in 1..Len(connections) |-> exportRow(connections[i])]

ExportInit ==
  /\ pts = <<>>
  /\ cls = [pipeline |-> "PP", connections |-> <<>>, exported |-> FALSE,
            rows |-> <<>>]
  /\ unit \in GridStepsPerMetre
  /\ rev = "PP"
  /\ elements = <<>>
  /\ contact = <<>>
  /\ meshMaterial = [m \in Meshes |-> SemiTransparent]
  /\ originalMaterial = [m \in Meshes |-> <<>>]
  /\ isConnectionMode = TRUE
  /\ connectionVisualizer = <<>>
  /\ connectionData = <<>>
  /\ elementConnections = [e \in ExpressIDs |-> {}]
  /\ hasConnections = [e \in ElementInfo |-> FALSE]
  /\ rawIntersections = <<>>
  /\ visualizations = {}
  /\ sectionHidden = FALSE
  /\ errorShown = FALSE
  /\ pending = 0
  /\ event = "init"
  /\ pairsRun = {}
  /\ exited = <<>>

\* the pair under analysis has one more contact point
ContactPoint ==
  /\ ~cls.exported
  /\ Len(pts) < MaxPoints
  /\ \E point \in ExportGrid :
       /\ \A k \in 1..Len(pts) : pts[k] # point
       /\ pts' = Append(pts, point)
  /\ UNCHANGED <<cls, sessionVars, unit>>

\* findConnections is done with the pair: its Connection, if it has one, is
\* stored; every pair of a pass goes through the same pipeline
StoreConnection ==
  /\ ~cls.exported
  /\ Len(cls.connections) < MaxConnections
  /\ \E pipeline \in Pipelines :
       /\ cls.connections # <<>> => pipeline = cls.pipeline
       /\ findIntersection(pipeline, pts) # <<>>
       /\ cls' = [cls EXCEPT
                    !.pipeline = pipeline,
                    !.connections = Append(@, findIntersection(pipeline, pts)[1])]
  /\ pts' = <<>>
  /\ UNCHANGED <<sessionVars, unit>>

\* the export button; the model stops at the first export
ExportCSV ==
  /\ ~cls.exported
  /\ pts = <<>>
  /\ cls' = [cls EXCEPT !.exported = TRUE,
                        !.rows = exportConnectionsCSV(cls.connections)]
  /\ UNCHANGED <<pts, sessionVars, unit>>

ExportNext == ContactPoint \/ StoreConnection \/ ExportCSV

ExportSpec == ExportInit /\ [][ExportNext]_vars

\* C20: the export has exactly one row per Connection, and in every row the
\* measurement type and the unit are those of the connection type: Area and
\* m2 for surface, Length and m for line, Point and N/A for point.
C20_RowsMatchConnectionTypes ==
  cls.exported =>
    /\ Len(cls.rows) = Len(cls.connections)
    /\ \A i \in 1..Len(cls.rows) :
         /\ cls.rows[i].type = cls.connections[i].type
         /\ cls.rows[i].type = "surface" =>
              cls.rows[i].measurementType = "Area" /\ cls.rows[i].unit = "m2"
         /\ cls.rows[i].type = "line" =>
              cls.rows[i].measurementType = "Length" /\ cls.rows[i].unit = "m"
         /\ cls.rows[i].type = "point" =>
              cls.rows[i].measurementType = "Point" /\ cls.rows[i].unit = "N/A"

\* ---------------------------------------------------------------------------
\* Junction refinement: refinePointIntersections over the raw contact points
\* of one pass (the same code in PropertiesPanel.ts and Connections.ts)
\* ---------------------------------------------------------------------------

JunctionExpressIDs == 3
RawMax == 1

\* the scene of the refinement model: the elements of model 0, then an
\* element of model 1 that shares expressID 1 with an element of model 0
JunctionScene ==
  [i \in 1..(JunctionExpressIDs + 1) |->
     IF i <= JunctionExpressIDs THEN [modelID |-> 0, expressID |-> i]
     ELSE [modelID |-> 1, expressID |-> 1]]

\* the pairs (i, j), i < j, in the order of the two loops of findConnections
JunctionPairs == PairSeq(Len(JunctionScene))

\* raw contact points lie on one grid line, a quarter of a millimetre off the
\* millimetre marks and half a millimetre apart: x = (2h + 1) / 4 mm
RawPoints == { <<h, 0, 0>> : h \in 0..RawMax }

\* Math.round(x / tolerance) with tolerance = 1 mm, for x = (2h + 1) / 4 mm
roundToTolerance(h) == (2 * h + 3) \div 4

locationKey(point) ==
  <<roundToTolerance(point[1]), roundToTolerance(point[2]),
    roundToTolerance(point[3])>>

\* grouped: location key -> set of the expressIDs of the pairs of its points
grouped(raws) ==
  [key \in { locationKey(raws[k].point) : k \in 1..Len(raws) } |->
     UNION { {raws[k].pairs[1].expressID, raws[k].pairs[2].expressID} :
               k \in { n \in 1..Len(raws) : locationKey(raws[n].point) = key } }]

multiElementPoints(raws) ==
  { key \in DOMAIN grouped(raws) : Cardinality(grouped(raws)[key]) >= 3 }

isIntersectionMultiElement(expA, expB, multi, raws) ==
  \E k \in 1..Len(raws) :
    /\ \/ raws[k].pairs[1].expressID = expA /\ raws[k].pairs[2].expressID = expB
       \/ raws[k].pairs[1].expressID = expB /\ raws[k].pairs[2].expressID = expA
    /\ locationKey(raws[k].point) \in multi

refinePointIntersections(connections, raws) ==
  LET kept == { id \in DOMAIN connections :
                  \/ connections[id].type # "point"
                  \/ isIntersectionMultiElement(
                       connections[id].elements[1].expressID,
                       connections[id].elements[2].expressID,
                       multiElementPoints(raws), raws) }
  IN [id \in kept |-> connections[id]]

\* PropertiesPanel.ts skips a pair whose sorted expressID key was seen before
skippedAsProcessed(r, k) ==
  /\ r = "PP"
  /\ \E n \in 1..(k - 1) :
       pairKey(JunctionScene[JunctionPairs[n][1]], JunctionScene[JunctionPairs[n][2]])
         = pairKey(JunctionScene[JunctionPairs[k][1]], JunctionScene[JunctionPairs[k][2]])

refineFrame ==
  <<elements, contact, meshMaterial, originalMaterial, isConnectionMode,
    connectionVisualizer, connectionData, elementConnections, hasConnections,
    visualizations, sectionHidden, errorShown, pending, event, pairsRun,
    exited, pts, unit>>

RefineInit ==
  /\ rev \in Revs
  /\ elements = JunctionScene
  /\ rawIntersections = <<>>
  /\ cls = [next |-> 1, connections |-> <<>>, before |-> <<>>,
            refined |-> FALSE]
  /\ pts = <<>>
  /\ unit = 1
  /\ contact = <<>>
  /\ meshMaterial = [m \in Meshes |-> SemiTransparent]
  /\ originalMaterial = [m \in Meshes |-> <<>>]
  /\ isConnectionMode = TRUE
  /\ connectionVisualizer = <<>>
  /\ connectionData = <<>>
  /\ elementConnections = [e \in ExpressIDs |-> {}]
  /\ hasConnections = [e \in ElementInfo |-> FALSE]
  /\ visualizations = {}
  /\ sectionHidden = FALSE
  /\ errorShown = FALSE
  /\ pending = 0
  /\ event = "init"
  /\ pairsRun = {}
  /\ exited = <<>>

\* the pair loop is done with a pair that does not touch, or that the
\* PropertiesPanel.ts revision skips
PairWithoutContact ==
  /\ cls.next <= Len(JunctionPairs)
  /\ cls' = [cls EXCEPT !.next = @ + 1]
  /\ UNCHANGED <<rev, rawIntersections, refineFrame>>

\* the pair loop is done with a pair that touches: its Connection is stored
\* under its id and its contact point is collected with the pair
PairWithContact ==
  /\ cls.next <= Len(JunctionPairs)
  /\ ~skippedAsProcessed(rev, cls.next)
  /\ \E type \in ConnectionTypes, point \in RawPoints :
       LET a == JunctionScene[JunctionPairs[cls.next][1]]
           b == JunctionScene[JunctionPairs[cls.next][2]]
           id == ConnectionIdOf(rev, a, b)
           conn == [id |-> id, elements |-> <<a, b>>, type |-> type,
                    point |-> point]
       IN /\ cls' = [cls EXCEPT
                       !.next = @ + 1,
                       !.connections =
                         [i \in DOMAIN @ \cup {id} |->
                            IF i = id THEN conn ELSE @[i]]]
          /\ rawIntersections' =
               Append(rawIntersections, [point |-> point, pairs |-> <<a, b>>])
  /\ UNCHANGED <<rev, refineFrame>>

\* after the last pair the refinement runs over the Connection map
RefinePass ==
  /\ cls.next = Len(JunctionPairs) + 1
  /\ ~cls.refined
  /\ cls' = [cls EXCEPT
               !.refined = TRUE,
               !.before = cls.connections,
               !.connections =
                 refinePointIntersections(cls.connections, rawIntersections)]
  /\ UNCHANGED <<rev, rawIntersections, refineFrame>>

RefineNext == PairWithoutContact \/ PairWithContact \/ RefinePass

RefineSpec == RefineInit /\ [][RefineNext]_vars

\* the elements, by (modelID, expressID), with a raw contact point in the
\* bucket of a location key
ElementsInBucket(key) ==
  UNION { {rawIntersections[k].pairs[1], rawIntersections[k].pairs[2]} :
            k \in { n \in 1..Len(rawIntersections) :
                      locationKey(rawIntersections[n].point) = key } }

PairAtJunction(conn) ==
  \E k \in 1..Len(rawIntersections) :
    /\ {rawIntersections[k].pairs[1], rawIntersections[k].pairs[2]}
         = {conn.elements[1], conn.elements[2]}
    /\ Cardinality(ElementsInBucket(locationKey(rawIntersections[k].point))) >= 3

\* C21: the refinement removes exactly the point Connections whose element
\* pair has no raw contact point in a bucket holding at least three distinct
\* elements; every other Connection stays in the map unchanged.
C21_RemovesExactlyIsolatedPoints ==
  cls.refined =>
    cls.connections =
      [id \in { i \in DOMAIN cls.before :
                  cls.before[i].type # "point" \/ PairAtJunction(cls.before[i]) }
         |-> cls.before[id]]

\* two raw contact points less than the tolerance (1 mm) apart on every
\* axis: grid coordinates are half a millimetre apart
CloserThanTolerance(p, q) ==
  \A axis \in 1..3 :
    /\ 2 * (p[axis] - q[axis]) < 4
    /\ 2 * (q[axis] - p[axis]) < 4

\* C30: two raw contact points that differ by less than the tolerance (1 mm)
\* on every axis always receive the same bucket key, so contact points that
\* coincide within the tolerance are counted in one bucket.
C30_CloseSameBucket ==
  \A k, n \in 1..Len(rawIntersections) :
    CloserThanTolerance(rawIntersections[k].point, rawIntersections[n].point)
      => locationKey(rawIntersections[k].point)
           = locationKey(rawIntersections[n].point)

\* ---------------------------------------------------------------------------
\* Contact Point Finder: the six rays of one sampled vertex against one mesh,
\* and the vertex sampler
\* ---------------------------------------------------------------------------

\* the fields of the Connections object and of the scene that the finder and
\* the sampler do not read or write
SessionUnused ==
  /\ rev = "PP"
  /\ unit = 1
  /\ elements = <<>>
  /\ contact = <<>>
  /\ meshMaterial = [m \in Meshes |-> SemiTransparent]
  /\ originalMaterial = [m \in Meshes |-> <<>>]
  /\ isConnectionMode = TRUE
  /\ connectionVisualizer = <<>>
  /\ connectionData = <<>>
  /\ elementConnections = [e \in ExpressIDs |-> {}]
  /\ hasConnections = [e \in ElementInfo |-> FALSE]
  /\ rawIntersections = <<>>
  /\ visualizations = {}
  /\ sectionHidden = FALSE
  /\ errorShown = FALSE
  /\ pending = 0
  /\ event = "init"
  /\ pairsRun = {}
  /\ exited = <<>>

\* findPreciseTouchingPoints of PropertiesPanel.ts, raycastIntersection of
\* the detector in connection-utils.ts
Finders == {"findPreciseTouchingPoints", "raycastIntersection"}

\* +X, -X, +Y, -Y, +Z, -Z
Directions == 1..6

\* raycaster.intersectObject(mesh): the hits sorted by distance, each below
\* the threshold of 1 mm ("near") or not ("far")
IntersectLists == { <<>>, <<"near">>, <<"far">>, <<"near", "far">> }

RECURSIVE castRaysFrom(_, _, _)
castRaysFrom(finder, rays, k) ==
  IF k > 6 THEN <<>>
  ELSE IF finder = "findPreciseTouchingPoints"
       THEN IF Len(rays[k]) > 0 /\ rays[k][1] = "near"
            THEN <<[direction |-> k, hit |-> 1, distance |-> rays[k][1]]>>
            ELSE castRaysFrom(finder, rays, k + 1)
       ELSE IF Len(rays[k]) > 0
            THEN <<[direction |-> k, hit |-> 1, distance |-> rays[k][1]]>>
                   \o castRaysFrom(finder, rays, k + 1)
            ELSE castRaysFrom(finder, rays, k + 1)

\* the points one sampled vertex adds to the raw points of the mesh pair
castRays(finder, rays) == castRaysFrom(finder, rays, 1)

RayInit ==
  /\ cls = [finder |-> "findPreciseTouchingPoints",
            rays |-> [k \in Directions |-> <<>>], recorded |-> <<>>,
            sampled |-> FALSE]
  /\ pts = <<>>
  /\ SessionUnused

\* one sampled vertex of a mesh of A is tested against one mesh of B
SampleVertex ==
  /\ ~cls.sampled
  /\ \E finder \in Finders, rays \in [Directions -> IntersectLists] :
       cls' = [finder |-> finder, rays |-> rays,
               recorded |-> castRays(finder, rays), sampled |-> TRUE]
  /\ UNCHANGED <<pts, sessionVars, unit>>

\* the loop over the sampled vertices moves on to the next vertex
NextVertex ==
  /\ cls.sampled
  /\ cls' = [finder |-> "findPreciseTouchingPoints",
             rays |-> [k \in Directions |-> <<>>], recorded |-> <<>>,
             sampled |-> FALSE]
  /\ UNCHANGED <<pts, sessionVars, unit>>

RayNext == SampleVertex \/ NextVertex

RaySpec == RayInit /\ [][RayNext]_vars

QualifyingDirections ==
  { k \in Directions : Len(cls.rays[k]) > 0 /\ cls.rays[k][1] = "near" }

\* C22: for one sampled vertex and one mesh of B at most one raw point is
\* recorded: the nearest hit of the first direction, in the order +X, -X,
\* +Y, -Y, +Z, -Z, whose nearest hit is closer than 1 mm; no hit at or above
\* the threshold is recorded, and nothing when no direction qualifies.
C22_FirstQualifyingDirectionWins ==
  cls.sampled =>
    /\ Len(cls.recorded) <= 1
    /\ \A n \in 1..Len(cls.recorded) : cls.recorded[n].distance = "near"
    /\ QualifyingDirections = {} => cls.recorded = <<>>
    /\ QualifyingDirections # {} =>
         cls.recorded =
           <<[direction |-> CHOOSE k \in QualifyingDirections :
                              \A j \in QualifyingDirections : k <= j,
              hit |-> 1, distance |-> "near"]>>

\* ---- the sampler ----

MaxVertexCount == 200

\* K: 50 in findPreciseTouchingPoints, 100 in raycastIntersection
SampleBudgets == {50, 100}

stride(count, budget) ==
  IF count \div budget >= 1 THEN count \div budget ELSE 1

SampleInit ==
  /\ \E budget \in SampleBudgets, count \in 0..MaxVertexCount :
       cls = [budget |-> budget, count |-> count, i |-> 0, visited |-> {}]
  /\ pts = <<>>
  /\ SessionUnused

\* one turn of `for (let i = 0; i < count; i += stride)`
VisitVertex ==
  /\ cls.i < cls.count
  /\ cls' = [cls EXCEPT !.visited = @ \cup {cls.i},
                        !.i = @ + stride(cls.count, cls.budget)]
  /\ UNCHANGED <<pts, sessionVars, unit>>

SampleNext == VisitVertex

SampleSpec == SampleInit /\ [][SampleNext]_vars

\* C23: the sampler visits exactly the indices 0, s, 2s, ... below n with
\* s = max(1, floor(n / K)), takes at most K samples for every n >= 0, and
\* none when n = 0.
C23_AtMostBudgetSamples ==
  cls.i >= cls.count =>
    /\ cls.visited =
         { j \in 0..(cls.count - 1) : j % stride(cls.count, cls.budget) = 0 }
    /\ Cardinality(cls.visited) <= cls.budget
    /\ cls.count = 0 => cls.visited = {}

\* ---------------------------------------------------------------------------
\* The pair loop of findConnections in the session model
\* ---------------------------------------------------------------------------

\* C24: a pass that commits has run the pairwise pipeline for every
\* unordered pair of elements of the scene, N(N-1)/2 pairs for N elements,
\* and skipped none, pairs across models with equal expressIDs included.
C24_EveryPairRuns ==
  event = "committed" =>
    /\ pairsRun = PairSet(Len(elements))
    /\ 2 * Cardinality(pairsRun) = Len(elements) * (Len(elements) - 1)

\* ---------------------------------------------------------------------------
\* The pair loop and the host event loop: the chunked findConnections of the
\* part_002 revision ("P2") and the loop of PropertiesPanel.ts ("PP").  An
\* await of findIntersection resumes in a microtask and does not return to
\* the event loop; only the setTimeout of part_002 does.
\* ---------------------------------------------------------------------------

MaxSceneElements == 12

chunkSize == 10

LoopRevisions == {"P2", "PP"}

\* the pair after (i, j) in `for i ... for j = i + 1 ...`
nextPair(count, i, j) ==
  IF j + 1 < count THEN <<i, j + 1>> ELSE <<i + 1, i + 2>>

InLoop == cls.j < cls.count

\* if (j % chunkSize === 0) await new Promise(r => setTimeout(r, 0))
yieldsBefore(revision, j) == revision = "P2" /\ j % chunkSize = 0

ChunkInit ==
  /\ \E revision \in LoopRevisions, count \in 0..MaxSceneElements :
       cls = [revision |-> revision, count |-> count, i |-> 0, j |-> 1,
              yielded |-> FALSE, sinceYield |-> 0, yields |-> 0,
              processed |-> 0]
  /\ pts = <<>>
  /\ SessionUnused

\* the loop is suspended on the timer and the host event loop runs
YieldToUI ==
  /\ InLoop
  /\ yieldsBefore(cls.revision, cls.j)
  /\ ~cls.yielded
  /\ cls' = [cls EXCEPT !.yielded = TRUE, !.yields = @ + 1, !.sinceYield = 0]
  /\ UNCHANGED <<pts, sessionVars, unit>>

\* findIntersection of the pair (i, j) and the bookkeeping of its result
ProcessPair ==
  /\ InLoop
  /\ yieldsBefore(cls.revision, cls.j) => cls.yielded
  /\ cls' = [cls EXCEPT !.i = nextPair(cls.count, cls.i, cls.j)[1],
                        !.j = nextPair(cls.count, cls.i, cls.j)[2],
                        !.yielded = FALSE,
                        !.sinceYield = @ + 1,
                        !.processed = @ + 1]
  /\ UNCHANGED <<pts, sessionVars, unit>>

ChunkNext == YieldToUI \/ ProcessPair

ChunkSpec == ChunkInit /\ [][ChunkNext]_vars

\* C25: no more than chunkSize = 10 pairs are processed between two
\* consecutive yields to the host event loop (or before the first one), and
\* a pass that has processed more than 10 pairs has yielded at least once.
C25_YieldsEveryChunk ==
  /\ cls.sinceYield <= chunkSize
  /\ (~InLoop /\ cls.processed > chunkSize) => cls.yields >= 1

\* ---------------------------------------------------------------------------
\* Mesh appearance: the materials of the meshes as objects, the
\* userData.originalMaterial slot shared by the Picker (FloatingMenu.ts) and
\* by Connections, and the events that write them.  Every element group
\* holds one mesh.
\* ---------------------------------------------------------------------------

NumSceneMeshes == 2

SceneMeshes == 1..NumSceneMeshes

\* material objects: the two materials of the Picker, shared by all meshes,
\* and two objects per mesh (the material it was loaded with and a clone)
prePickMaterial == <<0, 1>>

highlightMaterial == <<0, 2>>

MaterialObjects ==
  {prePickMaterial, highlightMaterial} \cup (SceneMeshes \X (1..2))

\* new THREE.MeshPhongMaterial({opacity: color.w, transparent: color.w !== 1})
LoadedMaterials ==
  { [color |-> "ifc", transparent |-> FALSE, opacity |-> 100, depthWrite |-> TRUE],
    [color |-> "ifc", transparent |-> TRUE,  opacity |-> 50,  depthWrite |-> TRUE] }

PickerMaterials ==
  [o \in {prePickMaterial, highlightMaterial} |->
     IF o = prePickMaterial
     THEN [color |-> "prePick", transparent |-> TRUE, opacity |-> 30,
           depthWrite |-> TRUE]
     ELSE [color |-> "highlight", transparent |-> TRUE, opacity |-> 50,
           depthWrite |-> TRUE]]

Unallocated ==
  [color |-> "none", transparent |-> FALSE, opacity |-> 100, depthWrite |-> TRUE]

\* objects no mesh refers to any more are garbage
collect(c) ==
  [c EXCEPT !.heap =
     [o \in MaterialObjects |->
        IF \/ o \in {prePickMaterial, highlightMaterial}
           \/ \E m \in SceneMeshes : c.material[m] = o \/ c.stash[m] = <<o>>
        THEN c.heap[o] ELSE Unallocated]]

\* the object material.clone() returns for mesh m
cloneOf(c, m) == CHOOSE o \in {<<m, 1>>, <<m, 2>>} : o # c.material[m]

\* analyzeConnections: the traversal that stashes a clone unless the slot is
\* taken, then changes mesh.material in place
RECURSIVE setSemiTransparentFrom(_, _)
setSemiTransparentFrom(c, m) ==
  IF m > NumSceneMeshes THEN c
  ELSE LET c1 == IF c.stash[m] = <<>>
                 THEN [c EXCEPT !.stash[m] = <<cloneOf(c, m)>>,
                                !.heap[cloneOf(c, m)] = c.heap[c.material[m]]]
                 ELSE c
       IN setSemiTransparentFrom(
            [c1 EXCEPT !.heap[c1.material[m]] =
               [@ EXCEPT !.transparent = TRUE, !.opacity = 30,
                         !.depthWrite = FALSE]],
            m + 1)

\* exitConnectionMode: the traversal that restores the stash and deletes it;
\* Connections.ts then makes mesh.material opaque in place
RECURSIVE resetMaterialsFrom(_, _, _)
resetMaterialsFrom(r, c, m) ==
  IF m > NumSceneMeshes THEN c
  ELSE LET c1 == IF c.stash[m] # <<>>
                 THEN [c EXCEPT !.material[m] = c.stash[m][1],
                                !.stash[m] = <<>>]
                 ELSE c
       IN resetMaterialsFrom(r,
            IF r = "CT"
            THEN [c1 EXCEPT !.heap[c1.material[m]] =
                    [@ EXCEPT !.transparent = FALSE, !.opacity = 100,
                              !.depthWrite = TRUE]]
            ELSE c1,
            m + 1)

resetPrePick(c) ==
  IF c.prePickObject # <<>> /\ c.prePickObject # c.selectedObject
  THEN LET p == c.prePickObject[1]
       IN [c EXCEPT !.material[p] =
                      IF c.stash[p] # <<>> /\ ~c.isSelected[p]
                      THEN c.stash[p][1] ELSE @,
                    !.prePickObject = <<>>]
  ELSE c

\* target: <<>> when the ray hits no mesh, <<m>> when it hits mesh m first
handleMouseMove(c, target) ==
  LET c1 == resetPrePick(c)
  IN IF target # <<>>
     THEN IF target # c1.selectedObject
          THEN [c1 EXCEPT !.prePickObject = target,
                          !.stash[target[1]] =
                             IF @ = <<>> THEN <<c1.material[target[1]]>> ELSE @,
                          !.material[target[1]] = prePickMaterial]
          ELSE c1
     ELSE resetPrePick(c1)

resetSelection(c) ==
  IF c.selectedObject = <<>> THEN c
  ELSE LET s == c.selectedObject[1]
       IN [c EXCEPT !.material[s] =
                      IF c.stash[s] # <<>> THEN c.stash[s][1] ELSE @,
                    !.isSelected[s] = IF c.stash[s] # <<>> THEN FALSE ELSE @,
                    !.selectedObject = <<>>]

highlightSelection(c) ==
  IF c.selectedObject = <<>> THEN c
  ELSE LET s == c.selectedObject[1]
       IN [c EXCEPT !.stash[s] = IF @ = <<>> THEN <<c.material[s]>> ELSE @,
                    !.material[s] = highlightMaterial,
                    !.isSelected[s] = TRUE]

handleClick(c, target) ==
  IF target = <<>> THEN c
  ELSE highlightSelection([resetSelection(c) EXCEPT !.selectedObject = target])

appearanceFrame ==
  <<elements, contact, meshMaterial, originalMaterial, connectionVisualizer,
    connectionData, elementConnections, hasConnections, rawIntersections,
    visualizations, event, pairsRun, exited, pts, unit>>

AppearanceInit ==
  /\ rev \in Revs
  /\ \E load \in [SceneMeshes -> LoadedMaterials] :
       cls = [load |-> load,
              heap |-> [o \in MaterialObjects |->
                          IF o[1] = 0 THEN PickerMaterials[o]
                          ELSE IF o[2] = 1 THEN load[o[1]] ELSE Unallocated],
              material |-> [m \in SceneMeshes |-> <<m, 1>>],
              stash |-> [m \in SceneMeshes |-> <<>>],
              isSelected |-> [m \in SceneMeshes |-> FALSE],
              prePickObject |-> <<>>,
              selectedObject |-> <<>>,
              pickerUsed |-> FALSE,
              analyzed |-> FALSE,
              roundTrip |-> FALSE,
              last |-> "load"]
  /\ isConnectionMode = FALSE
  /\ sectionHidden = TRUE
  /\ errorShown = FALSE
  /\ pending = 0
  /\ pts = <<>>
  /\ unit = 1
  /\ elements = <<>>
  /\ contact = <<>>
  /\ meshMaterial = [m \in Meshes |-> SemiTransparent]
  /\ originalMaterial = [m \in Meshes |-> <<>>]
  /\ connectionVisualizer = <<>>
  /\ connectionData = <<>>
  /\ elementConnections = [e \in ExpressIDs |-> {}]
  /\ hasConnections = [e \in ElementInfo |-> FALSE]
  /\ rawIntersections = <<>>
  /\ visualizations = {}
  /\ event = "init"
  /\ pairsRun = {}
  /\ exited = <<>>

\* analyzeConnections from the point where it sets the connection mode; the
\* pass may end in the catch and show the error with its Retry button
enterConnectionMode ==
  /\ isConnectionMode' = TRUE
  /\ \E failed \in BOOLEAN : errorShown' = failed
  /\ cls' = collect([setSemiTransparentFrom(cls, 1) EXCEPT
                       !.analyzed = TRUE, !.last = "analyze"])

\* a call of analyzeConnections; Connections.ts first waits for a timer
startAnalysis ==
  IF rev = "PP"
  THEN enterConnectionMode /\ UNCHANGED pending
  ELSE /\ pending < MaxPending
       /\ pending' = pending + 1
       /\ UNCHANGED <<isConnectionMode, errorShown, cls>>

AnalyzeClicked ==
  /\ sectionHidden
  /\ sectionHidden' = FALSE
  /\ startAnalysis
  /\ UNCHANGED <<rev, appearanceFrame>>

RetryClicked ==
  /\ errorShown
  /\ startAnalysis
  /\ UNCHANGED <<rev, sectionHidden, appearanceFrame>>

AnalysisResumed ==
  /\ pending > 0
  /\ pending' = pending - 1
  /\ enterConnectionMode
  /\ UNCHANGED <<rev, sectionHidden, appearanceFrame>>

ExitClicked ==
  /\ ~sectionHidden
  /\ sectionHidden' = TRUE
  /\ isConnectionMode' = FALSE
  /\ cls' = collect([resetMaterialsFrom(rev, cls, 1) EXCEPT
                       !.analyzed = FALSE, !.last = "exit",
                       !.roundTrip = cls.analyzed /\ ~cls.pickerUsed])
  /\ UNCHANGED <<rev, errorShown, pending, appearanceFrame>>

MouseMoved ==
  /\ \E target \in {<<>>} \cup { <<m>> : m \in SceneMeshes } :
       cls' = collect([handleMouseMove(cls, target) EXCEPT
                         !.pickerUsed = TRUE, !.last = "mousemove"])
  /\ UNCHANGED <<rev, isConnectionMode, sectionHidden, errorShown, pending,
                 appearanceFrame>>

MouseClicked ==
  /\ \E target \in {<<>>} \cup { <<m>> : m \in SceneMeshes } :
       cls' = collect([handleClick(cls, target) EXCEPT
                         !.pickerUsed = TRUE, !.last = "click"])
  /\ UNCHANGED <<rev, isConnectionMode, sectionHidden, errorShown, pending,
                 appearanceFrame>>

AppearanceNext ==
  \/ AnalyzeClicked
  \/ RetryClicked
  \/ AnalysisResumed
  \/ ExitClicked
  \/ MouseMoved
  \/ MouseClicked

AppearanceSpec == AppearanceInit /\ [][AppearanceNext]_vars

ShowsLoadedMaterial(m) == cls.heap[cls.material[m]] = cls.load[m]

\* C26: after analyzeConnections, run once or several times in a row, and
\* then exitConnectionMode, every mesh has the opacity, transparent and
\* depthWrite values it had before the first analyzeConnections, and no
\* originalMaterial stash is left on it.
C26_ExitRestoresAppearance ==
  (cls.last = "exit" /\ cls.roundTrip) =>
    \A m \in SceneMeshes : ShowsLoadedMaterial(m) /\ cls.stash[m] = <<>>

\* C27: for every interleaving of mouse moves, clicks, analyses and exits,
\* when connection mode is off and no element is hovered or selected every
\* mesh shows its load-time material: not the pre-pick or the highlight
\* material, and not semi-transparent.
C27_IdleMeshesShowLoadedMaterial ==
  (/\ ~isConnectionMode
   /\ pending = 0
   /\ cls.prePickObject = <<>>
   /\ cls.selectedObject = <<>>)
  => \A m \in SceneMeshes : ShowsLoadedMaterial(m)

\* ---------------------------------------------------------------------------
\* IntersectionVisualizer: the objects createVisualization adds to the scene
\* and the ones clear() removes
\* ---------------------------------------------------------------------------

MaxCreated == 3

\* ids of the visualization data: connection ids
VisualizationIds == { <<1, 2>>, <<1, 3>> }

\* the scene objects of one call: a point group when there are points, line
\* segments when there are lines, a surface mesh with its wireframe when
\* there is a surface, and the label sprite (createLabelText never returns
\* an empty text)
createdParts(data) ==
  (IF data.points THEN {"points"} ELSE {})
    \cup (IF data.type = "line" THEN {"lines"} ELSE {})
    \cup (IF data.type = "surface" THEN {"surface", "wireframe"} ELSE {})
    \cup {"label"}

createVisualization(c, data) ==
  LET objects == { [serial |-> c.created + 1, part |-> part] :
                     part \in createdParts(data) }
  IN [c EXCEPT !.scene = @ \cup objects,
               !.visualizations =
                  [id \in DOMAIN @ \cup {data.id} |->
                     IF id = data.id THEN objects ELSE @[id]],
               !.created = @ + 1]

\* the parts of a visualization that clear() passes to scene.remove
removedParts == {"points", "lines", "surface", "wireframe"}

clear(c) ==
  [c EXCEPT !.scene =
              @ \ { o \in UNION { c.visualizations[id] :
                                    id \in DOMAIN c.visualizations } :
                      o.part \in removedParts },
            !.visualizations = <<>>]

VisualizerInit ==
  /\ cls = [scene |-> {}, visualizations |-> <<>>, created |-> 0,
            last |-> "new"]
  /\ pts = <<>>
  /\ SessionUnused

\* visualizeConnections or findIntersection visualizes one connection
CreateVisualization ==
  /\ cls.created < MaxCreated
  /\ \E id \in VisualizationIds, type \in ConnectionTypes, points \in BOOLEAN :
       cls' = [createVisualization(cls, [id |-> id, type |-> type,
                                         points |-> points])
                 EXCEPT !.last = "create"]
  /\ UNCHANGED <<pts, sessionVars, unit>>

\* exitConnectionMode, or visualizeConnections before a re-analysis draws
ClearVisualizations ==
  /\ cls' = [clear(cls) EXCEPT !.last = "clear"]
  /\ UNCHANGED <<pts, sessionVars, unit>>

VisualizerNext == CreateVisualization \/ ClearVisualizations

VisualizerSpec == VisualizerInit /\ [][VisualizerNext]_vars

\* C28: clear() removes from the scene every object createVisualization
\* added: after it the scene holds no visualization object of an earlier
\* pass and the visualizer's map is empty.
C28_ClearRemovesEverything ==
  cls.last = "clear" => cls.scene = {} /\ cls.visualizations = <<>>

\* ---------------------------------------------------------------------------
\* Overlapping passes of PropertiesPanel.ts: analyzeConnections calls
\* visualizeConnections without awaiting it, and visualizeConnections awaits
\* getElementName (a call of the IFC API) for every connection it draws.
\* The pair loop awaits only code of this class and runs without a return
\* to the event loop; the await of the IFC API is a point where the event
\* loop may run other handlers before the continuation.
\* ---------------------------------------------------------------------------

MaxPasses == 3

\* the connections every pass finds in the scene, in Map order
SceneConnections == { << <<1, 2>> >>, << <<1, 2>>, <<1, 3>> >> }

\* `connection-${object1.uuid}-${object2.uuid}`: the id under which
\* findIntersection visualizes the pair of a connection id
uuidId(id) == <<0 - id[1], 0 - id[2]>>

\* createVisualization by a pass: the objects are those of a point contact
createVisualizationBy(c, pass, id) ==
  [createVisualization(c, [id |-> id, type |-> "point", points |-> TRUE])
     EXCEPT !.madeBy = Append(@, pass)]

\* findConnections: findIntersection visualizes every touching pair
RECURSIVE visualizePairsFrom(_, _, _)
visualizePairsFrom(c, pass, k) ==
  IF k > Len(c.connections) THEN c
  ELSE visualizePairsFrom(
         createVisualizationBy(c, pass, uuidId(c.connections[k])), pass, k + 1)

\* visualizeConnections from connection number k on, up to the next await of
\* getElementName
visualizeConnectionsFrom(c, pass, k) ==
  IF k > Len(c.connections) THEN c
  ELSE [c EXCEPT !.suspended = @ \cup {[pass |-> pass, next |-> k]}]

\* analyzeConnections up to the return of the call of visualizeConnections
analyzePass(c, pass, failed) ==
  IF failed
  THEN [visualizePairsFrom(c, pass, 1) EXCEPT !.committed = FALSE]
  ELSE visualizeConnectionsFrom(
         clear([visualizePairsFrom(c, pass, 1) EXCEPT
                  !.connectionData = <<pass>>, !.committed = TRUE]),
         pass, 1)

OverlapInit ==
  /\ \E connections \in SceneConnections :
       cls = [connections |-> connections, scene |-> {},
              visualizations |-> <<>>, created |-> 0, madeBy |-> <<>>,
              connectionData |-> <<>>, connectionVisualizations |-> <<>>,
              suspended |-> {}, started |-> 0, overlapped |-> FALSE,
              committed |-> FALSE]
  /\ sectionHidden = TRUE
  /\ errorShown = FALSE
  /\ pts = <<>>
  /\ unit = 1
  /\ rev = "PP"
  /\ elements = <<>>
  /\ contact = <<>>
  /\ meshMaterial = [m \in Meshes |-> SemiTransparent]
  /\ originalMaterial = [m \in Meshes |-> <<>>]
  /\ isConnectionMode = FALSE
  /\ connectionVisualizer = <<>>
  /\ connectionData = <<>>
  /\ elementConnections = [e \in ExpressIDs |-> {}]
  /\ hasConnections = [e \in ElementInfo |-> FALSE]
  /\ rawIntersections = <<>>
  /\ visualizations = {}
  /\ pending = 0
  /\ event = "init"
  /\ pairsRun = {}
  /\ exited = <<>>

overlapFrame ==
  <<rev, elements, contact, meshMaterial, originalMaterial, isConnectionMode,
    connectionVisualizer, connectionData, elementConnections, hasConnections,
    rawIntersections, visualizations, pending, event, pairsRun, exited, pts,
    unit>>

\* a call of analyzeConnections: the pass may throw in the pair loop and
\* show the error with its Retry button
startPass ==
  /\ cls.started < MaxPasses
  /\ \E failed \in BOOLEAN :
       /\ errorShown' = failed
       /\ cls' = [analyzePass(cls, cls.started + 1, failed) EXCEPT
                    !.started = @ + 1,
                    !.overlapped = cls.suspended # {}]

PassStarted ==
  /\ sectionHidden
  /\ sectionHidden' = FALSE
  /\ startPass
  /\ UNCHANGED overlapFrame

PassRetried ==
  /\ errorShown
  /\ startPass
  /\ UNCHANGED <<sectionHidden, overlapFrame>>

\* exitConnectionMode; suspended passes are not cancelled
ModeExited ==
  /\ ~sectionHidden
  /\ sectionHidden' = TRUE
  /\ cls' = [clear(cls) EXCEPT !.connectionData = <<>>,
                               !.connectionVisualizations = <<>>]
  /\ UNCHANGED <<errorShown, overlapFrame>>

\* getElementName has returned to a suspended visualizeConnections: it draws
\* the connection, tracks it, and goes on to the next one
NameResolved ==
  /\ \E task \in cls.suspended :
       LET id == cls.connections[task.next]
           c1 == createVisualizationBy(
                   [cls EXCEPT !.suspended = @ \ {task}], task.pass, id)
           c2 == [c1 EXCEPT !.connectionVisualizations =
                    [i \in DOMAIN @ \cup {id} |->
                       IF i = id THEN c1.visualizations[id] ELSE @[i]]]
       IN cls' = visualizeConnectionsFrom(c2, task.pass, task.next + 1)
  /\ UNCHANGED <<sectionHidden, errorShown, overlapFrame>>

OverlapNext == PassStarted \/ PassRetried \/ ModeExited \/ NameResolved

OverlapSpec == OverlapInit /\ [][OverlapNext]_vars

TrackedObjects ==
  UNION { cls.connectionVisualizations[id] :
            id \in DOMAIN cls.connectionVisualizations }

====
